---- MODULE Spec2Model ----
(***************************************************************************)
(* Singly-linked lists of the linkedlist crate:                            *)
(*   good_stack::List<T>      exclusively owned stack with three cursors   *)
(*   persitent_list::List<T>  immutable list of reference-counted nodes    *)
(*   bad_stack::List          exclusively owned stack with an enum link    *)
(* Nodes live in a heap indexed by node ids; the link value 0 is the       *)
(* empty link (None).  An Option<T> result is <<>> (None) or <<v>>.        *)
(***************************************************************************)
EXTENDS Integers, Sequences, FiniteSets

VARIABLES
    comp,       \* which module the program exercises
    op,         \* name of the last call
    arg,        \* its argument: the element pushed, written or prepended; the head
                \* link of the persistent list value dropped; 0 for the other calls
    ret,        \* value that call returned
    \* ---- good_stack ----
    head,       \* List.head : Link
    elem,       \* Node.elem of every box
    next,       \* Node.next of every box
    boxes,      \* the Box<Node> allocations that exist
    pc,         \* "live", "drop" (inside Drop::drop), "dropped"
    cur_link,   \* local of Drop::drop
    kind,       \* cursor alive over the list: "none", "iter", "iter_mut", "into_iter"
    it_next,    \* Iter.next / IterMut.next
    views,      \* the &mut T produced and still usable, in order of production
    shadow,     \* the abstract stack: elements pushed and not yet popped, newest first
    snap,       \* abstract content of the list when the cursor was created, or
                \* when the destructor was entered
    out,        \* items the cursor has produced so far
    done,       \* the cursor has reported end-of-sequence
    \* ---- persitent_list ----
    lists,      \* the list values the program holds: how many have each link as List.head
    p_elem,     \* Node.elem of every Rc allocation
    p_next,     \* Node.next of every Rc allocation
    strong,     \* strong count of every Rc allocation (0: not allocated)
    p_pc,       \* "run", or "drop" inside Drop::drop
    p_head,     \* local `head` of Drop::drop
    p_it,       \* the Iter alive: <<head of the list it borrows, Iter.next>>, or <<>>
    \* ---- bad_stack (the link value 0 is Link::Empty, n is Link::More of box n) ----
    b_head,     \* List.head : Link
    b_elem,     \* Node.elem of every box
    b_next,     \* Node.next of every box
    b_boxes,    \* the Box<Node> allocations that exist
    b_pc,       \* "live", "drop" (inside Drop::drop), "dropped"
    b_cur_link, \* local of Drop::drop
    b_ret       \* value the last call on the bad_stack list returned

vars == <<comp, op, arg, ret, head, elem, next, boxes, pc, cur_link, kind, it_next,
          views, shadow, snap, out, done,
          lists, p_elem, p_next, strong, p_pc, p_head, p_it,
          b_head, b_elem, b_next, b_boxes, b_pc, b_cur_link, b_ret>>

badVars == <<b_head, b_elem, b_next, b_boxes, b_pc, b_cur_link, b_ret>>

persistVars == <<lists, p_elem, p_next, strong, p_pc, p_head, p_it>>

stackVars == <<head, elem, next, boxes, pc, cur_link, kind, it_next,
               views, shadow, snap, out, done>>

\* ---- bounds ----
MaxNodes == 3
MaxVal == 3
MaxPNodes == 3
MaxLists == 3

Nodes == 1..MaxNodes
Values == 1..MaxVal
PNodes == 1..MaxPNodes
Links == 0..MaxPNodes

None == <<>>
Some(v) == <<v>>
Unit == <<0, 0>>

\* ---- good_stack: helpers ----

\* Box::new places the node in an unused allocation
NewBox == CHOOSE n \in Nodes \ boxes : \A m \in Nodes \ boxes : n <= m

\* mutant of ElemOf: the empty link is not told apart and a default element is reported
ElemOfUnchecked(link) == Some(IF link = 0 THEN 0 ELSE elem[link])

\* Option<Box<Node>>::as_ref().map(|node| &node.elem)
ElemOf(link) == IF link = 0 THEN None ELSE Some(elem[link])

\* mutant of IterStep: the cursor is not moved to the successor
IterStepStuck(link) ==
    IF link = 0 THEN <<None, 0>> ELSE <<Some(elem[link]), link>>

\* Iter::next as a function of the cursor: the item and the cursor afterwards
IterStep(link) ==
    IF link = 0 THEN <<None, 0>> ELSE <<Some(elem[link]), next[link]>>

RECURSIVE Walk(_, _)
Walk(link, fuel) ==
    IF link = 0 \/ fuel = 0 THEN <<>>
    ELSE <<elem[link]>> \o Walk(next[link], fuel - 1)

\* the elements reachable from the head, head first
ListSeq == Walk(head, MaxNodes + 1)

\* the nodes of the chain, head first
RECURSIVE Chain(_, _)
Chain(link, fuel) ==
    IF link = 0 \/ fuel = 0 THEN <<>>
    ELSE <<link>> \o Chain(next[link], fuel - 1)

\* the boxes released when the Box at link is dropped: Box's drop releases
\* the node and then whatever the node's next link still owns
RECURSIVE DropGlue(_, _, _)
DropGlue(link, nx, fuel) ==
    IF link = 0 \/ fuel = 0 THEN {}
    ELSE {link} \cup DropGlue(nx[link], nx, fuel - 1)

\* the nodes of the list's chain, head first
StackChain == Chain(head, MaxNodes + 1)

Mutable == pc = "live" /\ kind # "into_iter"

NoCursor == /\ kind' = "none" /\ it_next' = 0 /\ views' = <<>>
            /\ snap' = <<>> /\ out' = <<>> /\ done' = FALSE

\* ---- good_stack: operations ----

StackInit ==
    /\ head = 0
    /\ elem = [n \in Nodes |-> 0]
    /\ next = [n \in Nodes |-> 0]
    /\ boxes = {}
    /\ pc = "live"
    /\ cur_link = 0
    /\ kind = "none" /\ it_next = 0 /\ views = <<>>
    /\ shadow = <<>> /\ snap = <<>> /\ out = <<>> /\ done = FALSE

\* List::new, binding a fresh list after the previous one is gone
New ==
    /\ comp = "good_stack"
    /\ pc = "dropped"
    /\ head' = 0 /\ pc' = "live"
    /\ op' = "new" /\ arg' = 0 /\ ret' = Unit
    /\ NoCursor
    /\ UNCHANGED <<badVars, persistVars, comp, elem, next, boxes, cur_link, shadow>>

\* the state change of List::push on the list
PushBody(v) ==
    /\ boxes # Nodes
    /\ elem' = [elem EXCEPT ![NewBox] = v]
    /\ next' = [next EXCEPT ![NewBox] = head]
    /\ boxes' = boxes \cup {NewBox}
    /\ head' = NewBox

Push(v) ==
    /\ comp = "good_stack"
    /\ Mutable
    /\ PushBody(v)
    /\ shadow' = <<v>> \o shadow
    /\ op' = "push" /\ arg' = v /\ ret' = Unit
    /\ NoCursor
    /\ UNCHANGED <<badVars, persistVars, comp, pc, cur_link>>

\* mutant of PopBody: head.take() empties the head and the rest of the chain is
\* never put back, so it is released with the node
PopBodyLost ==
    IF head = 0
    THEN /\ ret' = None
         /\ UNCHANGED <<head, elem, next, boxes>>
    ELSE /\ ret' = Some(elem[head])
         /\ head' = 0
         /\ elem' = [n \in Nodes |-> 0]
         /\ next' = [n \in Nodes |-> 0]
         /\ boxes' = {}

\* the state change of List::pop on the list and its result
PopBody ==
    IF head = 0
    THEN /\ ret' = None
         /\ UNCHANGED <<head, elem, next, boxes>>
    ELSE /\ ret' = Some(elem[head])
         /\ head' = next[head]
         /\ elem' = [elem EXCEPT ![head] = 0]
         /\ next' = [next EXCEPT ![head] = 0]
         /\ boxes' = boxes \ {head}

Pop ==
    /\ comp = "good_stack"
    /\ Mutable
    /\ PopBody
    /\ shadow' = IF shadow = <<>> THEN <<>> ELSE Tail(shadow)
    /\ op' = "pop" /\ arg' = 0
    /\ NoCursor
    /\ UNCHANGED <<badVars, persistVars, comp, pc, cur_link>>

\* mutant of Peek: the head is taken out of the list instead of borrowed
PeekTaking ==
    /\ comp = "good_stack"
    /\ Mutable
    /\ ret' = ElemOf(head)
    /\ op' = "peek" /\ arg' = 0
    /\ head' = 0
    /\ elem' = [n \in Nodes |-> 0]
    /\ next' = [n \in Nodes |-> 0]
    /\ boxes' = {}
    /\ NoCursor
    /\ UNCHANGED <<badVars, persistVars, comp, pc, cur_link, shadow>>

\* List::peek; a cursor from iter() stays usable, mutable borrows end
Peek ==
    /\ comp = "good_stack"
    /\ Mutable
    /\ ret' = ElemOf(head)
    /\ op' = "peek" /\ arg' = 0
    /\ IF kind = "iter"
       THEN UNCHANGED <<kind, it_next, views, snap, out, done>>
       ELSE NoCursor
    /\ UNCHANGED <<badVars, persistVars, comp, head, elem, next, boxes, pc, cur_link, shadow>>

\* mutant of PeekMut: the view handed out is of the node after the head
PeekMutSecond ==
    /\ comp = "good_stack"
    /\ Mutable
    /\ ret' = ElemOf(head)
    /\ op' = "peek_mut" /\ arg' = 0
    /\ views' = IF head = 0 THEN <<>>
                ELSE IF next[head] = 0 THEN <<head>> ELSE <<next[head]>>
    /\ kind' = "none" /\ it_next' = 0
    /\ snap' = <<>> /\ out' = <<>> /\ done' = FALSE
    /\ UNCHANGED <<badVars, persistVars, comp, head, elem, next, boxes, pc, cur_link, shadow>>

\* List::peek_mut: the view handed out is the head node's element
PeekMut ==
    /\ comp = "good_stack"
    /\ Mutable
    /\ ret' = ElemOf(head)
    /\ op' = "peek_mut" /\ arg' = 0
    /\ views' = IF head = 0 THEN <<>> ELSE <<head>>
    /\ kind' = "none" /\ it_next' = 0
    /\ snap' = <<>> /\ out' = <<>> /\ done' = FALSE
    /\ UNCHANGED <<badVars, persistVars, comp, head, elem, next, boxes, pc, cur_link, shadow>>

\* *value = v through the i-th live view (from peek_mut or IterMut::next)
WriteView(i, v) ==
    /\ comp = "good_stack"
    /\ pc = "live"
    /\ i \in 1..Len(views)
    /\ elem' = [elem EXCEPT ![views[i]] = v]
    /\ shadow' = [shadow EXCEPT ![i] = v]
    /\ op' = "write" /\ arg' = v /\ ret' = Unit
    /\ UNCHANGED <<badVars, persistVars, comp, head, next, boxes, pc, cur_link, kind, it_next,
                   views, snap, out, done>>

\* List::iter
Iter ==
    /\ comp = "good_stack"
    /\ Mutable
    /\ kind' = "iter" /\ it_next' = head
    /\ views' = <<>> /\ snap' = shadow /\ out' = <<>> /\ done' = FALSE
    /\ op' = "iter" /\ arg' = 0 /\ ret' = Unit
    /\ UNCHANGED <<badVars, persistVars, comp, head, elem, next, boxes, pc, cur_link, shadow>>

\* <Iter as Iterator>::next
IterNext ==
    /\ comp = "good_stack"
    /\ pc = "live" /\ kind = "iter"
    /\ ret' = IterStep(it_next)[1]
    /\ it_next' = IterStep(it_next)[2]
    /\ out' = out \o ret'
    /\ done' = (done \/ ret' = None)
    /\ op' = "iter_next" /\ arg' = 0
    /\ UNCHANGED <<badVars, persistVars, comp, head, elem, next, boxes, pc, cur_link, kind,
                   views, shadow, snap>>

\* List::iter_mut
IterMut ==
    /\ comp = "good_stack"
    /\ Mutable
    /\ kind' = "iter_mut" /\ it_next' = head
    /\ views' = <<>> /\ snap' = shadow /\ out' = <<>> /\ done' = FALSE
    /\ op' = "iter_mut" /\ arg' = 0 /\ ret' = Unit
    /\ UNCHANGED <<badVars, persistVars, comp, head, elem, next, boxes, pc, cur_link, shadow>>

\* mutant of IterMutNext: node.next.take() instead of as_deref_mut() cuts the
\* chain after the node visited
IterMutNextTaking ==
    /\ comp = "good_stack"
    /\ pc = "live" /\ kind = "iter_mut"
    /\ IF it_next = 0
       THEN /\ ret' = None
            /\ UNCHANGED <<it_next, views, next, elem, boxes>>
       ELSE LET cut == DropGlue(next[it_next], next, MaxNodes + 1) IN
            /\ ret' = Some(elem[it_next])
            /\ it_next' = 0
            /\ views' = Append(views, it_next)
            /\ next' = [n \in Nodes |-> IF n \in cut \/ n = it_next THEN 0 ELSE next[n]]
            /\ elem' = [n \in Nodes |-> IF n \in cut THEN 0 ELSE elem[n]]
            /\ boxes' = boxes \ cut
    /\ out' = out \o ret'
    /\ done' = (done \/ ret' = None)
    /\ op' = "iter_mut_next" /\ arg' = 0
    /\ UNCHANGED <<badVars, persistVars, comp, head, pc, cur_link, kind, shadow, snap>>

\* <IterMut as Iterator>::next
IterMutNext ==
    /\ comp = "good_stack"
    /\ pc = "live" /\ kind = "iter_mut"
    /\ IF it_next = 0
       THEN /\ ret' = None
            /\ UNCHANGED <<it_next, views>>
       ELSE /\ ret' = Some(elem[it_next])
            /\ it_next' = next[it_next]
            /\ views' = Append(views, it_next)
    /\ out' = out \o ret'
    /\ done' = (done \/ ret' = None)
    /\ op' = "iter_mut_next" /\ arg' = 0
    /\ UNCHANGED <<badVars, persistVars, comp, head, elem, next, boxes, pc, cur_link, kind,
                   shadow, snap>>

\* List::into_iter: the list moves into the cursor
IntoIter ==
    /\ comp = "good_stack"
    /\ Mutable
    /\ kind' = "into_iter" /\ it_next' = 0
    /\ views' = <<>> /\ snap' = shadow /\ out' = <<>> /\ done' = FALSE
    /\ op' = "into_iter" /\ arg' = 0 /\ ret' = Unit
    /\ UNCHANGED <<badVars, persistVars, comp, head, elem, next, boxes, pc, cur_link, shadow>>

\* mutant of IntoIterNext: the head element is reported but not removed
IntoIterNextPeek ==
    /\ comp = "good_stack"
    /\ pc = "live" /\ kind = "into_iter"
    /\ ret' = ElemOf(head)
    /\ out' = out \o ret'
    /\ done' = (done \/ ret' = None)
    /\ op' = "into_iter_next" /\ arg' = 0
    /\ UNCHANGED <<badVars, persistVars, comp, head, elem, next, boxes, shadow, pc, cur_link,
                   kind, it_next, views, snap>>

\* <IntoIter as Iterator>::next: self.0.pop()
IntoIterNext ==
    /\ comp = "good_stack"
    /\ pc = "live" /\ kind = "into_iter"
    /\ PopBody
    /\ shadow' = IF shadow = <<>> THEN <<>> ELSE Tail(shadow)
    /\ out' = out \o ret'
    /\ done' = (done \/ ret' = None)
    /\ op' = "into_iter_next" /\ arg' = 0
    /\ UNCHANGED <<badVars, persistVars, comp, pc, cur_link, kind, it_next, views, snap>>

\* Drop::drop, entry: let mut cur_link = self.head.take(); snap keeps what
\* the list held when its destructor was entered
DropBegin ==
    /\ comp = "good_stack"
    /\ pc = "live"
    /\ cur_link' = head /\ head' = 0
    /\ pc' = "drop"
    /\ shadow' = <<>>
    /\ op' = "drop" /\ arg' = 0 /\ ret' = Unit
    /\ kind' = "none" /\ it_next' = 0 /\ views' = <<>>
    /\ snap' = shadow /\ out' = <<>> /\ done' = FALSE
    /\ UNCHANGED <<badVars, persistVars, comp, elem, next, boxes>>

\* mutant of DropLoop: the node's next link is not taken out before the node
\* goes out of scope, so Box's drop releases the successor from inside the
\* release of the node, and so on down the chain
DropLoopGlue ==
    /\ comp = "good_stack"
    /\ pc = "drop" /\ cur_link # 0
    /\ LET freed == DropGlue(cur_link, next, MaxNodes + 1)
       IN  /\ cur_link' = 0
           /\ boxes' = boxes \ freed
           /\ next' = [n \in Nodes |-> IF n \in freed THEN 0 ELSE next[n]]
           /\ elem' = [n \in Nodes |-> IF n \in freed THEN 0 ELSE elem[n]]
    /\ UNCHANGED <<badVars, persistVars, comp, op, arg, ret, head, pc, kind, it_next, views,
                   shadow, snap, out, done>>

\* mutant of DropLoop: the node taken out of cur_link is forgotten instead of
\* going out of scope, so its allocation stays
DropLoopForget ==
    /\ comp = "good_stack"
    /\ pc = "drop" /\ cur_link # 0
    /\ cur_link' = next[cur_link]
    /\ next' = [next EXCEPT ![cur_link] = 0]
    /\ UNCHANGED <<badVars, persistVars, comp, op, arg, ret, head, elem, boxes, pc, kind,
                   it_next, views, shadow, snap, out, done>>

\* Drop::drop, one turn of the loop: cur_link = boxed_node.next.take(),
\* then boxed_node goes out of scope
DropLoop ==
    /\ comp = "good_stack"
    /\ pc = "drop" /\ cur_link # 0
    /\ LET taken == [next EXCEPT ![cur_link] = 0]
           freed == DropGlue(cur_link, taken, MaxNodes + 1)
       IN  /\ cur_link' = next[cur_link]
           /\ boxes' = boxes \ freed
           /\ next' = [n \in Nodes |-> IF n \in freed THEN 0 ELSE taken[n]]
           /\ elem' = [n \in Nodes |-> IF n \in freed THEN 0 ELSE elem[n]]
    /\ UNCHANGED <<badVars, persistVars, comp, op, arg, ret, head, pc, kind, it_next, views, shadow,
                   snap, out, done>>

\* Drop::drop, the loop finds cur_link empty and the list is gone
DropEnd ==
    /\ comp = "good_stack"
    /\ pc = "drop" /\ cur_link = 0
    /\ pc' = "dropped"
    /\ UNCHANGED <<badVars, persistVars, comp, op, arg, ret, head, elem, next, boxes, cur_link, kind,
                   it_next, views, shadow, snap, out, done>>

\* ---- persitent_list: helpers ----

\* the links that are the head of some list value
Live == {l \in Links : lists[l] > 0}

\* number of list values the program holds
NumLists == LET RECURSIVE Sum(_)
                Sum(l) == IF l < 0 THEN 0 ELSE lists[l] + Sum(l - 1)
            IN  Sum(MaxPNodes)

\* Rc::new places the node in an unused allocation
NewRc == CHOOSE n \in PNodes : strong[n] = 0 /\ \A m \in PNodes : strong[m] = 0 => n <= m

\* mutant of CloneLink: the link is duplicated without counting the new owner
CloneLinkFlat(link, st) == st

\* Option<Rc<Node>>::clone: one more owner of the node the link names
CloneLink(link, st) == IF link = 0 THEN st ELSE [st EXCEPT ![link] = @ + 1]

\* Option<Rc<Node>>::as_ref().map(|node| &node.elem)
PElemOf(link) == IF link = 0 THEN None ELSE Some(p_elem[link])

\* Iter::next as a function of the cursor: the item and the cursor afterwards
PIterStep(link) ==
    IF link = 0 THEN <<None, 0>> ELSE <<Some(p_elem[link]), p_next[link]>>

\* the items iter() produces from a link until end-of-sequence
RECURSIVE PWalk(_, _)
PWalk(link, fuel) ==
    IF PIterStep(link)[1] = None \/ fuel = 0 THEN <<>>
    ELSE PIterStep(link)[1] \o PWalk(PIterStep(link)[2], fuel - 1)

PSeq(link) == PWalk(link, MaxPNodes + 1)

\* mutant of RcDrop: the node is freed without looking at its count, other
\* owners or not, and so is everything its next link names
RECURSIVE RcDropFree(_, _, _)
RcDropFree(link, hp, fuel) ==
    IF link = 0 \/ fuel = 0 THEN hp
    ELSE RcDropFree(hp.next[link],
                    [strong |-> [hp.strong EXCEPT ![link] = 0],
                     next |-> [hp.next EXCEPT ![link] = 0],
                     elem |-> [hp.elem EXCEPT ![link] = 0]],
                    fuel - 1)

\* the heap after an Rc to link is dropped: the count goes down by one, and
\* the last owner frees the node, which drops the node's own next link
RECURSIVE RcDrop(_, _, _)
RcDrop(link, hp, fuel) ==
    IF link = 0 \/ fuel = 0 THEN hp
    ELSE IF hp.strong[link] > 1
         THEN [hp EXCEPT !.strong[link] = @ - 1]
         ELSE RcDrop(hp.next[link],
                     [strong |-> [hp.strong EXCEPT ![link] = 0],
                      next |-> [hp.next EXCEPT ![link] = 0],
                      elem |-> [hp.elem EXCEPT ![link] = 0]],
                     fuel - 1)

\* ---- persitent_list: operations ----

PersistInit ==
    /\ lists = [l \in Links |-> IF l = 0 THEN 1 ELSE 0]
    /\ p_elem = [n \in PNodes |-> 0]
    /\ p_next = [n \in PNodes |-> 0]
    /\ strong = [n \in PNodes |-> 0]
    /\ p_pc = "run" /\ p_head = 0
    /\ p_it = <<>>

\* List::new
PNew ==
    /\ comp = "persitent_list"
    /\ p_pc = "run" /\ NumLists < MaxLists
    /\ lists' = [lists EXCEPT ![0] = @ + 1]
    /\ op' = "new" /\ arg' = 0 /\ ret' = Unit
    /\ UNCHANGED <<badVars, stackVars, comp, p_elem, p_next, strong, p_pc, p_head, p_it>>

\* mutant of Prepend: next is self.head.take() instead of a clone, so the
\* receiver gives its chain away and is left empty
PrependTaking(h, v) ==
    /\ comp = "persitent_list"
    /\ p_pc = "run" /\ h \in Live /\ NumLists < MaxLists
    /\ \E n \in PNodes : strong[n] = 0
    /\ p_elem' = [p_elem EXCEPT ![NewRc] = v]
    /\ p_next' = [p_next EXCEPT ![NewRc] = h]
    /\ strong' = [strong EXCEPT ![NewRc] = 1]
    /\ lists' = [l \in Links |->
                    lists[l] + (IF l = NewRc THEN 1 ELSE 0) + (IF l = 0 THEN 1 ELSE 0)
                             - (IF l = h THEN 1 ELSE 0)]
    /\ op' = "prepend" /\ arg' = v /\ ret' = Unit
    /\ UNCHANGED <<badVars, stackVars, comp, p_pc, p_head, p_it>>

\* mutant of Prepend: the receiver's head node is copied into a second fresh
\* allocation and the new node points at the copy
PrependCopy(h, v) ==
    /\ comp = "persitent_list"
    /\ p_pc = "run" /\ h \in Live /\ NumLists < MaxLists
    /\ \E n \in PNodes : strong[n] = 0
    /\ LET free == {n \in PNodes : strong[n] = 0 /\ n # NewRc}
           copy == IF h = 0 \/ free = {} THEN h
                   ELSE CHOOSE n \in free : \A m \in free : n <= m
       IN  IF copy = h
           THEN /\ p_elem' = [p_elem EXCEPT ![NewRc] = v]
                /\ p_next' = [p_next EXCEPT ![NewRc] = h]
                /\ strong' = [CloneLink(h, strong) EXCEPT ![NewRc] = 1]
           ELSE /\ p_elem' = [p_elem EXCEPT ![NewRc] = v, ![copy] = p_elem[h]]
                /\ p_next' = [p_next EXCEPT ![NewRc] = copy, ![copy] = p_next[h]]
                /\ strong' = [CloneLink(p_next[h], strong) EXCEPT ![NewRc] = 1, ![copy] = 1]
    /\ lists' = [lists EXCEPT ![NewRc] = @ + 1]
    /\ op' = "prepend" /\ arg' = v /\ ret' = Unit
    /\ UNCHANGED <<badVars, stackVars, comp, p_pc, p_head, p_it>>

\* List::prepend on a list value whose head is h
Prepend(h, v) ==
    /\ comp = "persitent_list"
    /\ p_pc = "run" /\ h \in Live /\ NumLists < MaxLists
    /\ \E n \in PNodes : strong[n] = 0
    /\ p_elem' = [p_elem EXCEPT ![NewRc] = v]
    /\ p_next' = [p_next EXCEPT ![NewRc] = h]
    /\ strong' = [CloneLink(h, strong) EXCEPT ![NewRc] = 1]
    /\ lists' = [lists EXCEPT ![NewRc] = @ + 1]
    /\ op' = "prepend" /\ arg' = v /\ ret' = Unit
    /\ UNCHANGED <<badVars, stackVars, comp, p_pc, p_head, p_it>>

\* mutant of PTail: the new list shares the receiver's head instead of its successor
PTailWhole(h) ==
    /\ comp = "persitent_list"
    /\ p_pc = "run" /\ h \in Live /\ NumLists < MaxLists
    /\ strong' = CloneLink(h, strong)
    /\ lists' = [lists EXCEPT ![h] = @ + 1]
    /\ op' = "tail" /\ arg' = 0 /\ ret' = Unit
    /\ UNCHANGED <<badVars, stackVars, comp, p_elem, p_next, p_pc, p_head, p_it>>

\* List::tail on a list value whose head is h
PTail(h) ==
    /\ comp = "persitent_list"
    /\ p_pc = "run" /\ h \in Live /\ NumLists < MaxLists
    /\ LET link == IF h = 0 THEN 0 ELSE p_next[h]
       IN  /\ strong' = CloneLink(link, strong)
           /\ lists' = [lists EXCEPT ![link] = @ + 1]
    /\ op' = "tail" /\ arg' = 0 /\ ret' = Unit
    /\ UNCHANGED <<badVars, stackVars, comp, p_elem, p_next, p_pc, p_head, p_it>>

\* List::head on a list value whose head is h
PHead(h) ==
    /\ comp = "persitent_list"
    /\ p_pc = "run" /\ h \in Live
    /\ ret' = PElemOf(h)
    /\ op' = "head" /\ arg' = 0
    /\ UNCHANGED <<badVars, stackVars, comp, lists, p_elem, p_next, strong, p_pc, p_head, p_it>>

\* List::iter on a list value whose head is h
PIter(h) ==
    /\ comp = "persitent_list"
    /\ p_pc = "run" /\ h \in Live
    /\ p_it' = <<h, h>>
    /\ op' = "iter" /\ arg' = 0 /\ ret' = Unit
    /\ UNCHANGED <<badVars, stackVars, comp, lists, p_elem, p_next, strong, p_pc, p_head>>

\* <Iter as Iterator>::next
PIterNext ==
    /\ comp = "persitent_list"
    /\ p_pc = "run" /\ p_it # <<>>
    /\ ret' = PIterStep(p_it[2])[1]
    /\ p_it' = <<p_it[1], PIterStep(p_it[2])[2]>>
    /\ op' = "iter_next" /\ arg' = 0
    /\ UNCHANGED <<badVars, stackVars, comp, lists, p_elem, p_next, strong, p_pc, p_head>>

\* mutant of PDropBegin: the head link is taken and forgotten, so the list
\* value goes away without releasing its count
PDropBeginForget(h) ==
    /\ comp = "persitent_list"
    /\ p_pc = "run" /\ h \in Live
    /\ p_pc' = "drop"
    /\ p_head' = 0
    /\ lists' = [lists EXCEPT ![h] = @ - 1]
    /\ p_it' = IF p_it # <<>> /\ p_it[1] = h /\ lists[h] = 1 THEN <<>> ELSE p_it
    /\ op' = "drop" /\ arg' = h /\ ret' = Unit
    /\ UNCHANGED <<badVars, stackVars, comp, p_elem, p_next, strong>>

\* Drop::drop on a list value whose head is h, entry:
\* let mut head = self.head.take()
PDropBegin(h) ==
    /\ comp = "persitent_list"
    /\ p_pc = "run" /\ h \in Live
    /\ p_pc' = "drop"
    /\ p_head' = h
    /\ lists' = [lists EXCEPT ![h] = @ - 1]
    /\ p_it' = IF p_it # <<>> /\ p_it[1] = h /\ lists[h] = 1 THEN <<>> ELSE p_it
    /\ op' = "drop" /\ arg' = h /\ ret' = Unit
    /\ UNCHANGED <<badVars, stackVars, comp, p_elem, p_next, strong>>

\* mutant of PDropLoop: the node is released whether or not it has other owners
PDropLoopAll ==
    /\ comp = "persitent_list"
    /\ p_pc = "drop" /\ p_head # 0
    /\ p_head' = p_next[p_head]
    /\ strong' = [strong EXCEPT ![p_head] = 0]
    /\ p_next' = [p_next EXCEPT ![p_head] = 0]
    /\ p_elem' = [p_elem EXCEPT ![p_head] = 0]
    /\ UNCHANGED <<badVars, stackVars, comp, op, arg, ret, lists, p_pc, p_it>>

\* mutant of PDropLoop: no break when the node has another owner; the count is
\* lowered and the walk goes on to the successor
PDropLoopNoBreak ==
    /\ comp = "persitent_list"
    /\ p_pc = "drop" /\ p_head # 0
    /\ p_head' = p_next[p_head]
    /\ strong' = [strong EXCEPT ![p_head] = @ - 1]
    /\ p_next' = [p_next EXCEPT ![p_head] = IF strong[p_head] = 1 THEN 0 ELSE @]
    /\ p_elem' = [p_elem EXCEPT ![p_head] = IF strong[p_head] = 1 THEN 0 ELSE @]
    /\ UNCHANGED <<badVars, stackVars, comp, op, arg, ret, lists, p_pc, p_it>>

\* mutant of PDropLoop: the successor link is taken out of the node whether or
\* not the destructor is its only owner, and the walk goes on
PDropLoopDetach ==
    /\ comp = "persitent_list"
    /\ p_pc = "drop" /\ p_head # 0
    /\ p_head' = p_next[p_head]
    /\ strong' = [strong EXCEPT ![p_head] = @ - 1]
    /\ p_next' = [p_next EXCEPT ![p_head] = 0]
    /\ p_elem' = [p_elem EXCEPT ![p_head] = IF strong[p_head] = 1 THEN 0 ELSE @]
    /\ UNCHANGED <<badVars, stackVars, comp, op, arg, ret, lists, p_pc, p_it>>

\* Drop::drop, one turn of the loop on Some(node): Rc::try_unwrap(node) gives
\* the node only to its single owner; otherwise the Rc is dropped and the loop breaks
PDropLoop ==
    /\ comp = "persitent_list"
    /\ p_pc = "drop" /\ p_head # 0
    /\ LET hp == [strong |-> strong, next |-> p_next, elem |-> p_elem] IN
       IF strong[p_head] = 1
       THEN LET taken == [hp EXCEPT !.next[p_head] = 0]
                after == RcDrop(p_head, taken, MaxPNodes + 1)
            IN  /\ p_head' = p_next[p_head]
                /\ strong' = after.strong
                /\ p_next' = after.next
                /\ p_elem' = after.elem
       ELSE LET after == RcDrop(p_head, hp, MaxPNodes + 1)
            IN  /\ p_head' = 0
                /\ strong' = after.strong
                /\ p_next' = after.next
                /\ p_elem' = after.elem
    /\ UNCHANGED <<badVars, stackVars, comp, op, arg, ret, lists, p_pc, p_it>>

\* Drop::drop returns and the list value is gone
PDropEnd ==
    /\ comp = "persitent_list"
    /\ p_pc = "drop" /\ p_head = 0
    /\ p_pc' = "run"
    /\ UNCHANGED <<badVars, stackVars, comp, op, arg, ret, lists, p_elem, p_next, strong, p_head, p_it>>

\* ---- bad_stack: operations ----

\* the elements reachable from the head of the bad_stack list, head first
RECURSIVE BadWalk(_, _)
BadWalk(link, fuel) ==
    IF link = 0 \/ fuel = 0 THEN <<>>
    ELSE <<b_elem[link]>> \o BadWalk(b_next[link], fuel - 1)

BadListSeq == BadWalk(b_head, MaxNodes + 1)

BadInit ==
    /\ b_head = 0
    /\ b_elem = [n \in Nodes |-> 0]
    /\ b_next = [n \in Nodes |-> 0]
    /\ b_boxes = {}
    /\ b_pc = "live"
    /\ b_cur_link = 0
    /\ b_ret = Unit

\* List::new, binding a fresh list after the previous one is gone
BadNew ==
    /\ comp = "bad_stack"
    /\ b_pc = "dropped"
    /\ b_head' = 0 /\ b_pc' = "live"
    /\ op' = "new" /\ arg' = 0 /\ b_ret' = Unit
    /\ UNCHANGED <<stackVars, persistVars, comp, ret, b_elem, b_next, b_boxes, b_cur_link>>

\* the state change of List::push: next is mem::replace(&mut self.head, Link::Empty),
\* then self.head = Link::More(new_node);
\* Box::new places the node in whichever unused allocation the allocator gives
BadPushBody(v) ==
    /\ \E n \in Nodes \ b_boxes :
          /\ b_elem' = [b_elem EXCEPT ![n] = v]
          /\ b_next' = [b_next EXCEPT ![n] = b_head]
          /\ b_boxes' = b_boxes \cup {n}
          /\ b_head' = n
    /\ b_ret' = Unit

BadPush(v) ==
    /\ comp = "bad_stack"
    /\ b_pc = "live"
    /\ BadPushBody(v)
    /\ op' = "push" /\ arg' = v
    /\ UNCHANGED <<stackVars, persistVars, comp, ret, b_pc, b_cur_link>>

\* mutant of BadPopBody: the arm for Link::More does not put node.next back,
\* so the head stays Link::Empty and the rest of the chain goes with the node
BadPopBodyLost ==
    IF b_head = 0
    THEN /\ b_ret' = None
         /\ UNCHANGED <<b_head, b_elem, b_next, b_boxes>>
    ELSE /\ b_ret' = Some(b_elem[b_head])
         /\ b_head' = 0
         /\ b_elem' = [n \in Nodes |-> 0]
         /\ b_next' = [n \in Nodes |-> 0]
         /\ b_boxes' = {}

\* the state change of List::pop: match mem::replace(&mut self.head, Link::Empty)
BadPopBody ==
    IF b_head = 0
    THEN /\ b_ret' = None
         /\ UNCHANGED <<b_head, b_elem, b_next, b_boxes>>
    ELSE /\ b_ret' = Some(b_elem[b_head])
         /\ b_head' = b_next[b_head]
         /\ b_elem' = [b_elem EXCEPT ![b_head] = 0]
         /\ b_next' = [b_next EXCEPT ![b_head] = 0]
         /\ b_boxes' = b_boxes \ {b_head}

BadPop ==
    /\ comp = "bad_stack"
    /\ b_pc = "live"
    /\ BadPopBody
    /\ op' = "pop" /\ arg' = 0
    /\ UNCHANGED <<stackVars, persistVars, comp, ret, b_pc, b_cur_link>>

\* Drop::drop, entry: let mut cur_link = mem::replace(&mut self.head, Link::Empty)
BadDropBegin ==
    /\ comp = "bad_stack"
    /\ b_pc = "live"
    /\ b_cur_link' = b_head /\ b_head' = 0
    /\ b_pc' = "drop"
    /\ op' = "drop" /\ arg' = 0 /\ b_ret' = Unit
    /\ UNCHANGED <<stackVars, persistVars, comp, ret, b_elem, b_next, b_boxes>>

\* Drop::drop, one turn of the loop:
\* cur_link = mem::replace(&mut boxed_node.next, Link::Empty), then boxed_node
\* goes out of scope
BadDropLoop ==
    /\ comp = "bad_stack"
    /\ b_pc = "drop" /\ b_cur_link # 0
    /\ LET taken == [b_next EXCEPT ![b_cur_link] = 0]
           freed == DropGlue(b_cur_link, taken, MaxNodes + 1)
       IN  /\ b_cur_link' = b_next[b_cur_link]
           /\ b_boxes' = b_boxes \ freed
           /\ b_next' = [n \in Nodes |-> IF n \in freed THEN 0 ELSE taken[n]]
           /\ b_elem' = [n \in Nodes |-> IF n \in freed THEN 0 ELSE b_elem[n]]
    /\ UNCHANGED <<stackVars, persistVars, comp, op, arg, ret, b_head, b_pc, b_ret>>

\* Drop::drop, the loop finds cur_link empty and the list is gone
BadDropEnd ==
    /\ comp = "bad_stack"
    /\ b_pc = "drop" /\ b_cur_link = 0
    /\ b_pc' = "dropped"
    /\ UNCHANGED <<stackVars, persistVars, comp, op, arg, ret, b_head, b_elem, b_next,
                   b_boxes, b_cur_link, b_ret>>

BadNext ==
    \/ BadNew
    \/ \E v \in Values : BadPush(v)
    \/ BadPop
    \/ BadDropBegin
    \/ BadDropLoop
    \/ BadDropEnd

\* ---- the two stacks driven by the same calls ----

\* push(v) on a good_stack list and on a bad_stack list
PairPush(v) ==
    /\ comp = "stack_pair"
    /\ PushBody(v)
    /\ BadPushBody(v)
    /\ shadow' = <<v>> \o shadow
    /\ op' = "push" /\ arg' = v /\ ret' = Unit
    /\ UNCHANGED <<persistVars, comp, pc, cur_link, kind, it_next, views, snap, out, done,
                   b_pc, b_cur_link>>

\* pop() on both lists
PairPop ==
    /\ comp = "stack_pair"
    /\ PopBody
    /\ BadPopBody
    /\ shadow' = IF shadow = <<>> THEN <<>> ELSE Tail(shadow)
    /\ op' = "pop" /\ arg' = 0
    /\ UNCHANGED <<persistVars, comp, pc, cur_link, kind, it_next, views, snap, out, done,
                   b_pc, b_cur_link>>

PairNext ==
    \/ \E v \in Values : PairPush(v)
    \/ PairPop

PersistNext ==
    \/ PNew
    \/ \E h \in Links, v \in Values : Prepend(h, v)
    \/ \E h \in Links : PTail(h)
    \/ \E h \in Links : PHead(h)
    \/ \E h \in Links : PIter(h)
    \/ PIterNext
    \/ \E h \in Links : PDropBegin(h)
    \/ PDropLoop
    \/ PDropEnd

StackNext ==
    \/ New
    \/ \E v \in Values : Push(v)
    \/ Pop
    \/ Peek
    \/ PeekMut
    \/ \E i \in 1..MaxNodes, v \in Values : WriteView(i, v)
    \/ Iter
    \/ IterNext
    \/ IterMut
    \/ IterMutNext
    \/ IntoIter
    \/ IntoIterNext
    \/ DropBegin
    \/ DropLoop
    \/ DropEnd

InitStack ==
    /\ comp = "good_stack" /\ op = "new" /\ arg = 0 /\ ret = Unit
    /\ StackInit
    /\ PersistInit
    /\ BadInit

InitPersist ==
    /\ comp = "persitent_list" /\ op = "new" /\ arg = 0 /\ ret = Unit
    /\ StackInit
    /\ PersistInit
    /\ BadInit

InitPair ==
    /\ comp = "stack_pair" /\ op = "new" /\ arg = 0 /\ ret = Unit
    /\ StackInit
    /\ PersistInit
    /\ BadInit

InitStacks ==
    /\ comp \in {"good_stack", "bad_stack"}
    /\ op = "new" /\ arg = 0 /\ ret = Unit
    /\ StackInit
    /\ PersistInit
    /\ BadInit

Init ==
    /\ comp \in {"good_stack", "persitent_list", "bad_stack"}
    /\ op = "new" /\ arg = 0 /\ ret = Unit
    /\ StackInit
    /\ PersistInit
    /\ BadInit

StacksNext == StackNext \/ BadNext

Next == StackNext \/ PersistNext \/ BadNext

SpecStack == InitStack /\ [][StackNext]_vars

SpecPersist == InitPersist /\ [][PersistNext]_vars

\* the same push and pop calls applied to a good_stack list and a bad_stack list
SpecPair == InitPair /\ [][PairNext]_vars

\* both stacks, one exercised per run; a destructor that has been entered keeps
\* running: its loop and its return are not delayed forever
SpecStacksFair ==
    /\ InitStacks /\ [][StacksNext]_vars
    /\ WF_vars(DropLoop) /\ WF_vars(DropEnd)
    /\ WF_vars(BadDropLoop) /\ WF_vars(BadDropEnd)

Spec == Init /\ [][Next]_vars

\* ---- properties ----

HeadOpt(q) == IF q = <<>> THEN None ELSE Some(Head(q))
TailOrEmpty(q) == IF q = <<>> THEN <<>> ELSE Tail(q)

\* C1: the list holds exactly the elements pushed and not yet popped, newest
\* first, and every pop returns the newest of them and removes exactly it
\* (the empty result when there is none)
C1_LifoOrder ==
    /\ [](pc = "live" => ListSeq = shadow)
    /\ [][(op' = "pop" /\ Pop) => /\ ret' = HeadOpt(shadow)
                                   /\ ListSeq' = TailOrEmpty(ListSeq)]_vars

\* 1 then 2 were pushed and a pop has returned 2
C1_Witness == op = "pop" /\ ret = Some(2) /\ shadow = <<1>>

\* C2: pop, peek and peek_mut on an empty stack and head on an empty
\* persistent list return None and leave the list empty
C2_EmptyResult ==
    [][/\ (shadow = <<>> /\ op' \in {"pop", "peek", "peek_mut"}
                         /\ (Pop \/ Peek \/ PeekMut)) =>
              (ret' = None /\ ListSeq' = <<>> /\ head' = 0 /\ boxes' = {})
       /\ (op' = "head" /\ PHead(0)) =>
              (ret' = None /\ lists' = lists /\ strong' = strong)]_vars

\* peek_mut was called on an empty stack
C2_Witness ==
    comp = "good_stack" /\ op = "peek_mut" /\ ret = None /\ shadow = <<>> /\ head = 0

\* C3: peek changes neither the nodes of the list nor their elements, and a
\* pop right after a peek that reported an element returns that element
C3_PeekNonDestructive ==
    [][/\ (op' = "peek" /\ Peek) =>
              (ListSeq' = ListSeq /\ StackChain' = StackChain /\ boxes' = boxes)
       /\ (op = "peek" /\ ret # None /\ op' = "pop" /\ Pop) => ret' = ret]_vars

\* peek reported the head of a three-element list
C3_Witness == op = "peek" /\ ret = Some(3) /\ shadow = <<3, 2, 1>>

\* C4: a write of v through the view from peek_mut replaces the head element
\* only, and a peek or pop that follows reports v
C4_PeekMutRoundTrip ==
    [][/\ (kind = "none" /\ op' = "write" /\ WriteView(1, arg')) =>
              /\ ListSeq # <<>>
              /\ ListSeq' = <<arg'>> \o Tail(ListSeq)
              /\ StackChain' = StackChain
              /\ boxes' = boxes
       /\ (op = "write" /\ kind = "none" /\ op' \in {"peek", "pop"} /\ (Peek \/ Pop)) =>
              ret' = Some(arg)]_vars

\* 3 was written through peek_mut over the head of a list pushed as 1, 2
C4_Witness ==
    /\ op = "write" /\ kind = "none" /\ arg = 3
    /\ views = <<head>> /\ ListSeq = <<3, 1>>

\* C5: each cursor produces the elements of the list it was made from, head
\* to tail, each once, then end-of-sequence on every further advance
C5_IteratorAgreement ==
    /\ []((kind # "none" /\ pc = "live") =>
              /\ Len(out) <= Len(snap)
              /\ out = SubSeq(snap, 1, Len(out))
              /\ done => out = snap)
    /\ [][(done /\ op' \in {"iter_next", "iter_mut_next", "into_iter_next"}
                 /\ (IterNext \/ IterMutNext \/ IntoIterNext)) =>
              (ret' = None /\ out' = out)]_vars

\* iter() over the pushes 1, 2, 3 has produced 3, 2, 1 and then ended
C5_Witness == kind = "iter" /\ done /\ snap = <<3, 2, 1>> /\ out = <<3, 2, 1>>

\* C6: an advance of the by-value cursor is a pop of the list it holds, the
\* list is what is left of the original, and it is empty once the cursor ended
C6_IntoIterIsPop ==
    /\ []((kind = "into_iter" /\ pc = "live") =>
              /\ Len(out) <= Len(snap)
              /\ ListSeq = SubSeq(snap, Len(out) + 1, Len(snap))
              /\ done => (ListSeq = <<>> /\ boxes = {}))
    /\ [][(op' = "into_iter_next" /\ IntoIterNext) =>
              /\ ret' = HeadOpt(ListSeq)
              /\ ListSeq' = TailOrEmpty(ListSeq)
              /\ boxes' = boxes \ {head}]_vars

\* into_iter() over the pushes 1, 2, 3 has produced 3, 2, 1 and then ended
C6_Witness ==
    kind = "into_iter" /\ done /\ snap = <<3, 2, 1>> /\ out = <<3, 2, 1>> /\ head = 0

\* C7: advancing iter or iter_mut changes no node, link or element; a write
\* through the i-th view of iter_mut changes the i-th element only, and the
\* list keeps matching the abstract content that later calls observe
C7_CursorsKeepStructure ==
    /\ [](pc = "live" => /\ ListSeq = shadow
                         /\ Len(views) <= Len(StackChain)
                         /\ kind = "iter_mut" =>
                                views = SubSeq(StackChain, 1, Len(views)))
    /\ [][/\ (op' \in {"iter_next", "iter_mut_next"} /\ (IterNext \/ IterMutNext)) =>
                 (StackChain' = StackChain /\ ListSeq' = ListSeq /\ boxes' = boxes)
          /\ (kind = "iter_mut" /\ op' = "write") =>
                 \A i \in {j \in 1..Len(views) : elem'[views[j]] = arg'} :
                     WriteView(i, arg') =>
                         /\ head' = head /\ next' = next /\ boxes' = boxes
                         /\ ListSeq' = [ListSeq EXCEPT ![i] = arg']]_vars

\* the second of three views from iter_mut was written, over the pushes 1, 2, 3
C7_Witness ==
    /\ op = "write" /\ kind = "iter_mut" /\ Len(views) = 3
    /\ snap = <<3, 2, 1>> /\ arg = 1 /\ ListSeq = <<3, 1, 1>>

\* the nodes a persistent list reaches from a link, head first
RECURSIVE PChain(_, _)
PChain(link, fuel) ==
    IF link = 0 \/ fuel = 0 THEN <<>>
    ELSE <<link>> \o PChain(p_next[link], fuel - 1)

\* a list with this head reaches allocated nodes only
PValid(link) ==
    \A i \in 1..Len(PChain(link, MaxPNodes + 1)) :
        strong[PChain(link, MaxPNodes + 1)[i]] > 0

\* C8: prepend(v) on a list returns one new list, headed by a fresh node, whose
\* sequence is v followed by the receiver's; the receiver and every other
\* list keep their head and their sequence
C8_PrependFrame ==
    [][\A h \in Links, v \in Values :
          (op' = "prepend" /\ Prepend(h, v)) =>
              /\ \E n \in PNodes :
                    /\ strong[n] = 0 /\ strong'[n] = 1
                    /\ lists' = [lists EXCEPT ![n] = 1]
                    /\ PSeq(n)' = <<v>> \o PSeq(h)
              /\ \A l \in Live : PSeq(l)' = PSeq(l) /\ PElemOf(l)' = PElemOf(l)]_vars

\* a second prepend on the same receiver: two lists whose heads have the
\* receiver's head as successor
C8_Witness ==
    /\ comp = "persitent_list" /\ op = "prepend"
    /\ \E a, b, c \in PNodes :
          /\ a # b /\ p_next[a] = c /\ p_next[b] = c
          /\ lists[a] = 1 /\ lists[b] = 1 /\ lists[c] = 1
          /\ PSeq(c) = <<1>> /\ PSeq(a) = <<2, 1>> /\ PSeq(b) = <<3, 1>>

\* C9: tail on a list returns one new list whose sequence is the receiver's
\* without its first element, empty when the receiver has at most one node,
\* and every list, the receiver included, keeps its sequence
C9_Tail ==
    [][\A h \in Links :
          (op' = "tail" /\ PTail(h)) =>
              /\ \E t \in Links :
                    /\ lists' = [lists EXCEPT ![t] = @ + 1]
                    /\ PSeq(t)' = TailOrEmpty(PSeq(h))
                    /\ Len(PSeq(h)) <= 1 => t = 0
              /\ \A l \in Live : PSeq(l)' = PSeq(l) /\ PValid(l)']_vars

\* tail was taken of an empty list while no node exists: both lists are empty
C9_Witness ==
    /\ comp = "persitent_list" /\ op = "tail"
    /\ lists[0] >= 2 /\ \A n \in PNodes : strong[n] = 0 /\ lists[n] = 0

\* C10: every list reaches allocated nodes only; head reports the first
\* element, so the heads of L2 and L3 are 2 and 3 and the head of either tail
\* is 1; each step of a drop leaves every list that is still held with the
\* sequence it had
C10_SharedLists ==
    /\ [](comp = "persitent_list" => \A l \in Live : PValid(l))
    /\ [][/\ ((p_pc = "drop" \/ p_pc' = "drop") /\
                 (PDropLoop \/ PDropEnd \/ \E h \in Links : PDropBegin(h))) =>
                 \A l \in Links :
                     lists'[l] > 0 =>
                         (lists[l] > 0 /\ PSeq(l)' = PSeq(l) /\ PValid(l)')
          /\ \A h \in Links : (op' = "head" /\ PHead(h)) => ret' = HeadOpt(PSeq(h))
          /\ \A h \in Links :
                 (op' = "tail" /\ PTail(h) /\ PSeq(h) \in {<<2, 1>>, <<3, 1>>}) =>
                     \E t \in PNodes :
                         /\ lists'[t] = lists[t] + 1
                         /\ PElemOf(t)' = Some(1)]_vars

\* L2 (head node 2) was dropped and its node freed while L1 = <<1>> and
\* L3 = <<3, 1>> are still held and share node 1
C10_Witness ==
    /\ comp = "persitent_list" /\ op = "drop" /\ p_pc = "run" /\ arg = 2
    /\ strong[2] = 0 /\ strong[1] = 2 /\ p_next[3] = 1
    /\ lists[1] = 1 /\ lists[3] = 1
    /\ PSeq(1) = <<1>> /\ PSeq(3) = <<3, 1>>

\* the set of nodes a persistent list reaches from a link
PNodesOf(link) ==
    {PChain(link, MaxPNodes + 1)[i] : i \in 1..Len(PChain(link, MaxPNodes + 1))}

\* C11: a step of the destructor frees no node that a list still held reaches;
\* every node such a list reaches stays allocated with its element and link,
\* and head on a surviving list right after the drop reads its first element
C11_SharedRetention ==
    [][/\ (p_pc = "drop" /\ PDropLoop) =>
              /\ \A n \in PNodes :
                     (strong[n] > 0 /\ strong'[n] = 0) =>
                         \A l \in Live : n \notin PNodesOf(l)
              /\ \A l \in Live : \A n \in PNodesOf(l) :
                     /\ strong'[n] > 0
                     /\ p_elem'[n] = p_elem[n]
                     /\ p_next'[n] = p_next[n]
              /\ \A l \in Live : PNodesOf(l)' = PNodesOf(l) /\ PSeq(l)' = PSeq(l)
       /\ \A h \in PNodes :
              (op = "drop" /\ op' = "head" /\ PHead(h)) =>
                  (strong[h] > 0 /\ ret' = Some(Head(PSeq(h))))]_vars

\* inside the drop of the list 3 -> 2 -> 1: nodes 3 and 2 are freed and the
\* destructor holds node 1, which the list <<1>> still held shares
C11_Witness ==
    /\ comp = "persitent_list" /\ op = "drop" /\ p_pc = "drop" /\ arg = 3
    /\ p_head = 1 /\ strong[3] = 0 /\ strong[2] = 0 /\ strong[1] = 2
    /\ lists[1] = 1 /\ PSeq(1) = <<1>>

\* the Rc<Node> allocations that exist
Alloc == {n \in PNodes : strong[n] > 0}

\* C12: prepend allocates exactly one node, whose successor link is the
\* receiver's head node, and writes no node that existed; tail allocates and
\* writes none and its list starts at the receiver's second node; so lists
\* that reach a common node have the very same nodes from there to the end
C12_NoCopying ==
    /\ [](comp = "persitent_list" =>
              \A l \in Live : \A k \in Live :
                  \A i \in 1..Len(PChain(l, MaxPNodes + 1)) :
                      \A j \in 1..Len(PChain(k, MaxPNodes + 1)) :
                          PChain(l, MaxPNodes + 1)[i] = PChain(k, MaxPNodes + 1)[j] =>
                              SubSeq(PChain(l, MaxPNodes + 1), i,
                                     Len(PChain(l, MaxPNodes + 1)))
                                = SubSeq(PChain(k, MaxPNodes + 1), j,
                                         Len(PChain(k, MaxPNodes + 1))))
    /\ [][/\ \A h \in Links, v \in Values :
                 (op' = "prepend" /\ Prepend(h, v)) =>
                     \E n \in PNodes \ Alloc :
                         /\ Alloc' = Alloc \cup {n}
                         /\ lists' = [lists EXCEPT ![n] = 1]
                         /\ p_next'[n] = h
                         /\ PChain(n, MaxPNodes + 1)' = <<n>> \o PChain(h, MaxPNodes + 1)
                         /\ \A m \in Alloc :
                                p_elem'[m] = p_elem[m] /\ p_next'[m] = p_next[m]
          /\ \A h \in Links :
                 (op' = "tail" /\ PTail(h)) =>
                     /\ Alloc' = Alloc /\ p_elem' = p_elem /\ p_next' = p_next
                     /\ \E t \in Links :
                            /\ lists' = [lists EXCEPT ![t] = @ + 1]
                            /\ PChain(t, MaxPNodes + 1)
                                 = TailOrEmpty(PChain(h, MaxPNodes + 1))]_vars

\* two prepend calls on the list whose head is node 1 made nodes 2 and 3: both
\* new lists continue in node 1 itself, which now has three owners
C12_Witness ==
    /\ comp = "persitent_list" /\ op = "prepend"
    /\ strong = <<3, 1, 1>> /\ lists[1] = 1 /\ lists[2] = 1 /\ lists[3] = 1
    /\ PChain(2, MaxPNodes + 1) = <<2, 1>> /\ PChain(3, MaxPNodes + 1) = <<3, 1>>

\* C13: no step changes the element or the successor link of a node that
\* stays allocated; a node's link is detached only by the destructor loop, on
\* the node its local holds as the only owner, and the link goes to that local
C13_NoMutationWhileOwned ==
    [][\A n \in PNodes :
          /\ (strong[n] > 0 /\ strong'[n] > 0) =>
                 (p_elem'[n] = p_elem[n] /\ p_next'[n] = p_next[n])
          /\ strong[n] > 1 => strong'[n] > 0
          /\ (strong[n] > 0 /\ (p_next'[n] # p_next[n] \/ p_elem'[n] # p_elem[n])) =>
                 /\ p_pc = "drop" /\ PDropLoop
                 /\ n = p_head /\ strong[n] = 1 /\ lists[n] = 0
                 /\ \A m \in PNodes : p_next[m] # n
                 /\ p_head' = p_next[n]]_vars

\* inside the drop of the list 2 -> 1: node 2 was taken and its link detached,
\* while node 1, owned by a list, by node 3 and by the destructor's local,
\* keeps its element and its link
C13_Witness ==
    /\ comp = "persitent_list" /\ op = "drop" /\ p_pc = "drop" /\ arg = 2
    /\ p_head = 1 /\ strong[2] = 0 /\ p_next[2] = 0 /\ strong[1] = 3
    /\ p_elem[1] = 1 /\ p_next[1] = 0 /\ p_next[3] = 1
    /\ lists[1] = 1 /\ lists[3] = 1

\* the boxes of the chain that starts at a link, in a heap with links nx
ChainSet(link, nx) == DropGlue(link, nx, MaxNodes + 1)

\* C14: inside the destructor of either stack the allocated nodes are those
\* of the chain still held by cur_link, and each turn of the loop releases
\* exactly the node at its front; the destructor, once entered, returns; and
\* when it has returned the head is empty and no node is allocated
C14_DropReleasesAll ==
    /\ [](/\ pc = "drop" => (head = 0 /\ boxes = ChainSet(cur_link, next))
          /\ pc = "dropped" => (head = 0 /\ boxes = {})
          /\ b_pc = "drop" => (b_head = 0 /\ b_boxes = ChainSet(b_cur_link, b_next))
          /\ b_pc = "dropped" => (b_head = 0 /\ b_boxes = {}))
    /\ [][/\ (pc = "drop" /\ DropLoop) =>
                 /\ cur_link \in boxes
                 /\ boxes' = boxes \ {cur_link}
                 /\ cur_link' = next[cur_link]
          /\ (b_pc = "drop" /\ BadDropLoop) =>
                 /\ b_cur_link \in b_boxes
                 /\ b_boxes' = b_boxes \ {b_cur_link}
                 /\ b_cur_link' = b_next[b_cur_link]
          /\ (pc = "live" /\ pc' = "drop") =>
                 (cur_link' = head /\ boxes = ChainSet(head, next) /\ boxes' = boxes)
          /\ (b_pc = "live" /\ b_pc' = "drop") =>
                 (b_cur_link' = b_head /\ b_boxes = ChainSet(b_head, b_next)
                                       /\ b_boxes' = b_boxes)]_vars
    /\ (pc = "drop") ~> (pc = "dropped")
    /\ (b_pc = "drop") ~> (b_pc = "dropped")

\* the destructor of a list that held 3, 2, 1 has returned and no node is left
C14_Witness ==
    /\ comp = "good_stack" /\ op = "drop" /\ pc = "dropped"
    /\ snap = <<3, 2, 1>> /\ boxes = {} /\ head = 0

\* C15: a turn of a destructor loop releases one node and no more: the node's
\* successor is not released with it but stays allocated, untouched, and
\* passes to the destructor's local; (the persistent list's loop releases
\* none when the node has another owner); so node releases never nest
C15_IterativeDrop ==
    [][/\ Cardinality(boxes \ boxes') <= 1
       /\ Cardinality(b_boxes \ b_boxes') <= 1
       /\ Cardinality(Alloc \ Alloc') <= 1
       /\ (pc = "drop" /\ DropLoop) =>
              /\ boxes \ boxes' = {cur_link}
              /\ cur_link' = next[cur_link]
              /\ cur_link' # 0 =>
                     /\ cur_link' \in boxes'
                     /\ elem'[cur_link'] = elem[cur_link']
                     /\ next'[cur_link'] = next[cur_link']
       /\ (b_pc = "drop" /\ BadDropLoop) =>
              /\ b_boxes \ b_boxes' = {b_cur_link}
              /\ b_cur_link' = b_next[b_cur_link]
              /\ b_cur_link' # 0 =>
                     /\ b_cur_link' \in b_boxes'
                     /\ b_elem'[b_cur_link'] = b_elem[b_cur_link']
                     /\ b_next'[b_cur_link'] = b_next[b_cur_link']
       /\ (p_pc = "drop" /\ PDropLoop) =>
              /\ Alloc \ Alloc' = IF strong[p_head] = 1 THEN {p_head} ELSE {}
              /\ strong[p_head] = 1 =>
                     /\ p_head' = p_next[p_head]
                     /\ p_head' # 0 =>
                            /\ strong'[p_head'] = strong[p_head']
                            /\ p_elem'[p_head'] = p_elem[p_head']
                            /\ p_next'[p_head'] = p_next[p_head']]_vars

\* inside the destructor of a stack that held 3, 2, 1: two turns of the loop
\* have released two nodes and the last node is still allocated
C15_Witness ==
    /\ comp = "good_stack" /\ pc = "drop" /\ snap = <<3, 2, 1>>
    /\ cur_link # 0 /\ boxes = {cur_link} /\ elem[cur_link] = 1 /\ next[cur_link] = 0

\* C16: the destructor's walk starts at the head of the list dropped; a turn
\* of its loop lowers the count of the node visited by exactly one and no
\* other count; when that count was the last the node is freed and the walk
\* goes to its successor, otherwise the walk stops there and the node keeps
\* its element and link; every other node keeps count, element and link
C16_DropWalk ==
    [][/\ \A h \in Links :
              (op' = "drop" /\ PDropBegin(h)) =>
                  /\ p_head' = h /\ lists'[h] = lists[h] - 1
                  /\ strong' = strong /\ p_elem' = p_elem /\ p_next' = p_next
       /\ (p_pc = "drop" /\ PDropLoop) =>
              /\ strong'[p_head] = strong[p_head] - 1
              /\ \A n \in PNodes \ {p_head} :
                     /\ strong'[n] = strong[n]
                     /\ p_elem'[n] = p_elem[n]
                     /\ p_next'[n] = p_next[n]
              /\ IF strong[p_head] = 1
                 THEN p_head \notin Alloc' /\ p_head' = p_next[p_head]
                 ELSE /\ p_head' = 0
                      /\ p_elem'[p_head] = p_elem[p_head]
                      /\ p_next'[p_head] = p_next[p_head]
       /\ (p_pc = "drop" /\ PDropEnd) =>
              /\ p_head = 0
              /\ strong' = strong /\ p_elem' = p_elem /\ p_next' = p_next
                                  /\ lists' = lists]_vars

\* inside the drop of the list 2 -> 1, the only other list being <<1>>: node
\* 2 held its last count and is freed, and the walk has come to node 1,
\* which the other list owns too
C16_Witness ==
    /\ comp = "persitent_list" /\ op = "drop" /\ p_pc = "drop" /\ arg = 2
    /\ p_head = 1 /\ strong = <<2, 0, 0>> /\ lists[1] = 1 /\ NumLists = 1

\* the owners of a node: the list values whose head it is and the allocated
\* nodes whose successor link it is
Owners(n) == lists[n] + Cardinality({m \in PNodes : strong[m] > 0 /\ p_next[m] = n})

\* C17: between operations the count of every node equals the number of its
\* owners, so a node is allocated exactly when it has an owner and nothing
\* refers to a node that is not allocated; inside a destructor the local that
\* holds the node being visited is one owner more
C17_CountIsOwners ==
    comp = "persitent_list" =>
        /\ p_pc = "run" =>
               /\ p_head = 0
               /\ \A n \in PNodes : strong[n] = Owners(n)
               /\ \A n \in PNodes : n \in Alloc <=> Owners(n) > 0
        /\ p_pc = "drop" =>
               \A n \in PNodes :
                   strong[n] = Owners(n) + (IF p_head = n THEN 1 ELSE 0)
        /\ \A n \in PNodes \ Alloc : p_next[n] = 0 /\ lists[n] = 0

\* after prepend, prepend, tail and a drop: node 1 is the head of one list and
\* the successor of node 2, and its count is 2
C17_Witness ==
    /\ comp = "persitent_list" /\ op = "drop" /\ p_pc = "run" /\ arg = 1
    /\ strong = <<2, 1, 0>> /\ p_next[2] = 1 /\ lists[1] = 1 /\ lists[2] = 1
    /\ NumLists = 2

\* the nodes that the list values held reach
Reachable == UNION {PNodesOf(l) : l \in Live}

\* C18: between operations every allocated node is reached from a list value
\* that is held, and no node is allocated when no list value is held; inside
\* a destructor the only other allocated nodes are those its local reaches
C18_NoLeak ==
    comp = "persitent_list" =>
        /\ p_pc = "run" => Alloc = Reachable
        /\ (p_pc = "run" /\ NumLists = 0) => Alloc = {}
        /\ p_pc = "drop" => Alloc = Reachable \cup PNodesOf(p_head)

\* the last list value, whose head was node 3, has been dropped: no list is
\* held and no node is left
C18_Witness ==
    /\ comp = "persitent_list" /\ op = "drop" /\ p_pc = "run" /\ arg = 3
    /\ NumLists = 0 /\ Alloc = {}

\* C19: after the same calls of push and pop, the bad_stack list and the
\* good_stack list hold the same elements in the same order, and the last
\* call returned the same result from both
C19_StacksEquivalent ==
    comp = "stack_pair" =>
        /\ ListSeq = BadListSeq
        /\ ret = b_ret
        /\ Cardinality(boxes) = Len(ListSeq)
        /\ Cardinality(b_boxes) = Len(BadListSeq)

\* as in test basics: after push 1, 2, 3 and two pops, the second pop returned
\* 2 from both lists and both hold 1
C19_Witness ==
    /\ comp = "stack_pair" /\ op = "pop"
    /\ ret = Some(2) /\ b_ret = Some(2)
    /\ ListSeq = <<1>> /\ BadListSeq = <<1>>
====
